---- MODULE Spec2Model ----
(***************************************************************************)
(* rlax losses (src/_src/losses.py): l2_loss, likelihood and log_loss.     *)
(*                                                                         *)
(* One call of one of the three functions is modelled as a small state     *)
(* machine that walks through the statements of the function body.  The    *)
(* arguments are arrays (a dtype and a one-dimensional sequence of         *)
(* elements); the elementwise arithmetic is that of a finite-precision     *)
(* number format: finite values are the multiples of 1/Scale, every        *)
(* operation rounds its exact result to the nearest representable value    *)
(* (ties to even), and NaN, +Inf and -Inf are values of the format.        *)
(***************************************************************************)
EXTENDS Integers, Sequences, FiniteSets

(***************************************************************************)
(* Bounds of the model.                                                    *)
(***************************************************************************)
\* longest array that is passed to a function
MaxLen == 2
\* the finite inputs are the halves h/2 with h in -1..MaxHalf
MaxHalf == 2

(***************************************************************************)
(* The number format.                                                      *)
(***************************************************************************)
\* finite values are n/Scale
Scale == 8

Fin(n) == [k |-> "fin", n |-> n]
NaN == [k |-> "nan", n |-> 0]
PInf == [k |-> "inf", n |-> 1]
NInf == [k |-> "inf", n |-> -1]
Zero == Fin(0)
One == Fin(Scale)
Half == Fin(Scale \div 2)

IsNaN(x) == x.k = "nan"
IsFin(x) == x.k = "fin"
IsInf(x) == x.k = "inf"
\* -1, 0 or 1 for a value that is not NaN
Sign(x) == IF x.n > 0 THEN 1 ELSE IF x.n < 0 THEN -1 ELSE 0
Abs(i) == IF i < 0 THEN 0 - i ELSE i
Max2(i, j) == IF i < j THEN j ELSE i

RECURSIVE IPow(_, _)
\* b^e for integers, e >= 0
IPow(b, e) == IF e = 0 THEN 1 ELSE b * IPow(b, e - 1)

RECURSIVE Gcd(_, _)
Gcd(i, j) == IF j = 0 THEN i ELSE Gcd(j, i % j)

\* a/d rounded to the nearest integer, ties to even (d > 0)
RoundDiv(a, d) ==
  LET q == a \div d
      r == a % d
  IN  IF 2 * r < d THEN q
      ELSE IF 2 * r > d THEN q + 1
      ELSE IF q % 2 = 0 THEN q ELSE q + 1

\* x == y on floats: NaN equals nothing
EqF(x, y) == ~IsNaN(x) /\ ~IsNaN(y) /\ x = y
Neg(x) ==
  IF IsNaN(x) THEN NaN
  ELSE IF IsInf(x) THEN [k |-> "inf", n |-> 0 - x.n]
  ELSE Fin(0 - x.n)

\* x - y
Sub(x, y) ==
  IF IsNaN(x) \/ IsNaN(y) THEN NaN
  ELSE IF IsInf(x) THEN (IF IsInf(y) /\ y.n = x.n THEN NaN ELSE x)
  ELSE IF IsInf(y) THEN Neg(y)
  ELSE Fin(x.n - y.n)

\* x * y
Mul(x, y) ==
  IF IsNaN(x) \/ IsNaN(y) THEN NaN
  ELSE IF IsInf(x) \/ IsInf(y)
       THEN (IF Sign(x) * Sign(y) = 0 THEN NaN
             ELSE [k |-> "inf", n |-> Sign(x) * Sign(y)])
  ELSE Fin(RoundDiv(x.n * y.n, Scale))

\* x ** 2 (an integer power is a product)
Square(x) == Mul(x, x)

\* (kk/Scale)^(nn/Scale) for kk > 0, in units of 1/Scale, rounded to nearest
\* (ties to even).  With |nn|/Scale = a/b in lowest terms the value v is
\* compared with the midpoints j/(2*Scale) through v^b and (j/(2*Scale))^b.
\* (The arguments that occur are multiples of 1/2, so b is 1 or 2.)
PowPos(kk, nn) ==
  LET g == Gcd(Abs(nn), Scale)
      a == Abs(nn) \div g
      b == Scale \div g
      \* v against j/(2*Scale): 1 when v is larger, 0 when equal, -1 when smaller
      Cmp(j) ==
        LET lhs == IF nn >= 0 THEN IPow(2 * Scale, b) * IPow(kk, a)
                   ELSE IPow(2 * Scale, b) * IPow(Scale, a)
            rhs == IF nn >= 0 THEN IPow(j, b) * IPow(Scale, a)
                   ELSE IPow(j, b) * IPow(kk, a)
        IN  IF lhs > rhs THEN 1 ELSE IF lhs = rhs THEN 0 ELSE -1
      c == (Abs(nn) + Scale - 1) \div Scale
      top == Scale * IPow(Max2(kk, Scale), c)
  IN  CHOOSE m \in 0..top :
        /\ \/ m = 0
           \/ Cmp(2 * m - 1) = 1
           \/ Cmp(2 * m - 1) = 0 /\ m % 2 = 0
        /\ \/ Cmp(2 * m + 1) = -1
           \/ Cmp(2 * m + 1) = 0 /\ m % 2 = 0

\* x ** y.  zpz is what the platform returns for 0 ** 0 (1, or NaN on TPUs).
\* Otherwise IEEE 754 pow: x ** 0 = 1 and 1 ** y = 1 for every x and y, a
\* negative base has a power only for an integer exponent.  The bases and
\* exponents that occur are the inputs and 1 - input: finite or NaN.
Power(zpz, x, y) ==
  IF x = Zero /\ y = Zero THEN zpz
  ELSE IF y = Zero \/ x = One THEN One
  ELSE IF IsNaN(x) \/ IsNaN(y) THEN NaN
  ELSE IF IsInf(y)
       THEN (IF IsFin(x) /\ Abs(x.n) = Scale THEN One
             ELSE IF (IsInf(x) \/ Abs(x.n) > Scale) <=> (y.n > 0) THEN PInf
             ELSE Zero)
  ELSE IF IsInf(x)
       THEN (IF x.n > 0 THEN (IF y.n > 0 THEN PInf ELSE Zero)
             ELSE IF y.n % (2 * Scale) = Scale
                  THEN (IF y.n > 0 THEN NInf ELSE Zero)
                  ELSE (IF y.n > 0 THEN PInf ELSE Zero))
  ELSE IF x = Zero THEN (IF y.n > 0 THEN Zero ELSE PInf)
  ELSE IF x.n > 0 THEN Fin(PowPos(x.n, y.n))
  ELSE IF y.n % Scale # 0 THEN NaN
  ELSE IF y.n % (2 * Scale) = 0 THEN Fin(PowPos(0 - x.n, y.n))
  ELSE Fin(0 - PowPos(0 - x.n, y.n))

\* round(Scale * ln(n/Scale)) for n = 1 .. 32, the logarithms of the finite
\* values up to 4
LnTable ==
  <<-17, -11, -8, -6, -4, -2, -1, 0, 1, 2, 3, 3, 4, 4, 5, 6,
    6, 6, 7, 7, 8, 8, 8, 9, 9, 9, 10, 10, 10, 11, 11, 11>>

\* natural logarithm
Log(x) ==
  IF IsNaN(x) THEN NaN
  ELSE IF IsInf(x) THEN (IF x.n > 0 THEN PInf ELSE NaN)
  ELSE IF x.n < 0 THEN NaN
  ELSE IF x.n = 0 THEN NInf
  ELSE Fin(LnTable[x.n])

(***************************************************************************)
(* Arrays.                                                                 *)
(***************************************************************************)
\* an array: its element type and its elements (one dimension)
Array(dtype, vals) == [dtype |-> dtype, vals |-> vals]
\* the absent optional argument, and an unassigned local
None == Array("none", <<>>)

\* the finite values enumerated as elements of the inputs
InputFinite == {Fin(h * (Scale \div 2)) : h \in -1..MaxHalf}
FloatElems == InputFinite \cup {NaN}
\* the elements of integer arrays: 0 and 1
IntElems == {Zero, One}
Lens == 1..MaxLen
FloatArrays == {Array("float", v) : v \in UNION {[1..n -> FloatElems] : n \in Lens}}
IntArrays == {Array("int", v) : v \in UNION {[1..n -> IntElems] : n \in Lens}}
Arrays == FloatArrays \cup IntArrays

\* the shapes of a and b broadcast against each other
Compatible(a, b) ==
  Len(a.vals) = Len(b.vals) \/ Len(a.vals) = 1 \/ Len(b.vals) = 1
BroadcastLen(a, b) == Max2(Len(a.vals), Len(b.vals))
\* element i of a once a is stretched to the broadcast shape
At(a, i) == IF Len(a.vals) = 1 THEN a.vals[1] ELSE a.vals[i]
\* the dtype of an elementwise result
ResultType(a, b) ==
  IF a.dtype = "float" \/ b.dtype = "float" THEN "float" ELSE "int"

\* (mutant) ones where zeros were meant
ZerosLike_ones(a) == Array(a.dtype, [i \in 1..Len(a.vals) |-> One])

\* jnp.zeros_like(a)
ZerosLike(a) == Array(a.dtype, [i \in 1..Len(a.vals) |-> Zero])

\* base.type_assert(arrays, float): every array has a floating-point dtype
TypeAssertOk(arrays) == \A i \in 1..Len(arrays) : arrays[i].dtype = "float"

(***************************************************************************)
(* The elementwise expressions of the three function bodies.               *)
(***************************************************************************)
\* (mutant) the difference is not squared
L2Elem_unsquared(p, t) == Mul(Half, Sub(p, t))

\* 0.5 * (predictions - targets)**2 at one position
L2Elem(p, t) == Mul(Half, Square(Sub(p, t)))

\* (mutant) 1 + predictions as the base of the second power
LikelihoodValsElem_plus(zpz, p, t) ==
  Mul(Power(zpz, p, t), Power(zpz, Sub(p, Neg(One)), Sub(One, t)))

\* predictions**targets * (1. - predictions)**(1. - targets) at one position
LikelihoodValsElem(zpz, p, t) ==
  Mul(Power(zpz, p, t), Power(zpz, Sub(One, p), Sub(One, t)))

\* (mutant) the case targets == 0, predictions == 0 is left out
FilterElem_ones_only(p, t) == EqF(t, One) /\ EqF(p, One)

\* (mutant) every position where predictions == targets is selected
FilterElem_any_equal(p, t) == EqF(t, p)

\* logical_or(logical_and(targets == 1, predictions == 1),
\*            logical_and(targets == 0, predictions == 0)) at one position
FilterElem(p, t) ==
  \/ EqF(t, One) /\ EqF(p, One)
  \/ EqF(t, Zero) /\ EqF(p, Zero)

\* (mutant) the two branches of the selection are exchanged
WhereElem_swapped(f, v) == IF f THEN v ELSE One

\* jnp.where(filter_indices, 1, likelihood_vals) at one position
WhereElem(f, v) == IF f THEN One ELSE v

\* (mutant) the logarithm is not negated
NegLogElem_not_negated(x) == Log(x)

\* (mutant) a guard returns 0 where the logarithm has no finite value
NegLogElem_guarded(x) ==
  IF IsFin(x) /\ x.n > 0 THEN Neg(Log(x)) ELSE Zero

\* -jnp.log(x) at one position
NegLogElem(x) == Neg(Log(x))

\* likelihood(predictions, targets) at one position
LikelihoodElem(zpz, p, t) == WhereElem(FilterElem(p, t), LikelihoodValsElem(zpz, p, t))

\* the body of l2_loss on whole arrays, broadcasting the shapes
L2Loss(a, b) ==
  Array(ResultType(a, b), [i \in 1..BroadcastLen(a, b) |-> L2Elem(At(a, i), At(b, i))])

(***************************************************************************)
(* State.                                                                  *)
(***************************************************************************)
VARIABLES
  zeroPowZero,      \* what 0 ** 0 evaluates to on this platform: 1, or NaN
  fn,               \* the function that was called
  predictions,      \* argument predictions
  targetsArg,       \* argument targets as passed (None when omitted)
  targets,          \* the local targets (l2_loss rebinds it)
  pc,               \* the statement about to run, "done" or "raised"
  stack,            \* the functions being executed, innermost last
  likelihood_vals,  \* local of likelihood
  filter_indices,   \* local of likelihood
  ret,              \* the value likelihood returned to log_loss
  result,           \* the value returned to the caller
  raised,           \* the error that ended the call
  raisedBy,         \* the function whose statement raised it
  arith             \* number of arithmetic array operations performed

vars == <<zeroPowZero, fn, predictions, targetsArg, targets, pc, stack,
          likelihood_vals, filter_indices, ret, result, raised, raisedBy, arith>>

Functions == {"l2_loss", "likelihood", "log_loss"}

\* the first statement of each function
Entry(f) ==
  IF f = "l2_loss" THEN "l2_47" ELSE IF f = "likelihood" THEN "lk_63" ELSE "ll_85"

Init ==
  /\ zeroPowZero \in {One, NaN}
  /\ fn \in Functions
  /\ predictions \in Arrays
  /\ targetsArg \in Arrays \cup (IF fn = "l2_loss" THEN {None} ELSE {})
  /\ targets = targetsArg
  /\ pc = Entry(fn)
  /\ stack = <<fn>>
  /\ likelihood_vals = None
  /\ filter_indices = <<>>
  /\ ret = None
  /\ result = None
  /\ raised = "none"
  /\ raisedBy = "none"
  /\ arith = 0

\* an error leaves the function and every caller: nothing catches it
Raise(err) ==
  /\ pc' = "raised"
  /\ raised' = err
  /\ raisedBy' = stack[Len(stack)]
  /\ UNCHANGED <<targets, stack, likelihood_vals, filter_indices, ret, result, arith>>

(***************************************************************************)
(* l2_loss                                                                 *)
(***************************************************************************)
\* if targets is None: targets = jnp.zeros_like(predictions)
l2_loss_default ==
  /\ pc = "l2_47"
  /\ targets' = IF targets = None THEN ZerosLike(predictions) ELSE targets
  /\ pc' = "l2_49"
  /\ UNCHANGED <<zeroPowZero, fn, predictions, targetsArg, stack, likelihood_vals,
                 filter_indices, ret, result, raised, raisedBy, arith>>

\* base.type_assert([predictions, targets], float)
l2_loss_type_assert ==
  /\ pc = "l2_49"
  /\ IF TypeAssertOk(<<predictions, targets>>)
     THEN /\ pc' = "l2_50"
          /\ UNCHANGED <<targets, stack, likelihood_vals, filter_indices, ret,
                         result, raised, raisedBy, arith>>
     ELSE Raise("TypeAssertion")
  /\ UNCHANGED <<zeroPowZero, fn, predictions, targetsArg>>

\* return 0.5 * (predictions - targets)**2
l2_loss_return ==
  /\ pc = "l2_50"
  /\ IF Compatible(predictions, targets)
     THEN /\ result' = L2Loss(predictions, targets)
          /\ arith' = arith + 3
          /\ pc' = "done"
          /\ stack' = <<>>
          /\ UNCHANGED <<targets, likelihood_vals, filter_indices, ret, raised, raisedBy>>
     ELSE Raise("BroadcastError")
  /\ UNCHANGED <<zeroPowZero, fn, predictions, targetsArg>>

(***************************************************************************)
(* likelihood                                                              *)
(***************************************************************************)
\* base.type_assert([predictions, targets], float)
likelihood_type_assert ==
  /\ pc = "lk_63"
  /\ IF TypeAssertOk(<<predictions, targets>>)
     THEN /\ pc' = "lk_64"
          /\ UNCHANGED <<targets, stack, likelihood_vals, filter_indices, ret,
                         result, raised, raisedBy, arith>>
     ELSE Raise("TypeAssertion")
  /\ UNCHANGED <<zeroPowZero, fn, predictions, targetsArg>>

\* likelihood_vals = predictions**targets * (1. - predictions)**(1. - targets)
likelihood_compute_vals ==
  /\ pc = "lk_64"
  /\ IF Compatible(predictions, targets)
     THEN /\ likelihood_vals' =
               Array("float",
                     [i \in 1..BroadcastLen(predictions, targets) |->
                        LikelihoodValsElem(zeroPowZero, At(predictions, i), At(targets, i))])
          /\ arith' = arith + 5
          /\ pc' = "lk_66"
          /\ UNCHANGED <<targets, stack, filter_indices, ret, result, raised, raisedBy>>
     ELSE Raise("BroadcastError")
  /\ UNCHANGED <<zeroPowZero, fn, predictions, targetsArg>>

\* filter_indices = jnp.logical_or(jnp.logical_and(targets == 1, predictions == 1),
\*                                 jnp.logical_and(targets == 0, predictions == 0))
likelihood_filter ==
  /\ pc = "lk_66"
  /\ filter_indices' = [i \in 1..BroadcastLen(predictions, targets) |->
                          FilterElem(At(predictions, i), At(targets, i))]
  /\ pc' = "lk_69"
  /\ UNCHANGED <<zeroPowZero, fn, predictions, targetsArg, targets, stack,
                 likelihood_vals, ret, result, raised, raisedBy, arith>>

\* return jnp.where(filter_indices, 1, likelihood_vals): to the caller of the
\* call, or into log_loss's expression
likelihood_return ==
  /\ pc = "lk_69"
  /\ LET out == Array("float",
                      [i \in 1..Len(filter_indices) |->
                         WhereElem(filter_indices[i], likelihood_vals.vals[i])])
     IN  IF Len(stack) = 1
         THEN /\ result' = out
              /\ pc' = "done"
              /\ stack' = <<>>
              /\ UNCHANGED ret
         ELSE /\ ret' = out
              /\ pc' = "ll_86r"
              /\ stack' = SubSeq(stack, 1, Len(stack) - 1)
              /\ UNCHANGED result
  /\ UNCHANGED <<zeroPowZero, fn, predictions, targetsArg, targets,
                 likelihood_vals, filter_indices, raised, raisedBy, arith>>

(***************************************************************************)
(* log_loss                                                                *)
(***************************************************************************)
\* (mutant) log_loss leaves the check to likelihood
log_loss_type_assert_omitted ==
  /\ pc = "ll_85"
  /\ pc' = "ll_86"
  /\ UNCHANGED <<zeroPowZero, fn, predictions, targetsArg, targets, stack,
                 likelihood_vals, filter_indices, ret, result, raised, raisedBy, arith>>

\* base.type_assert([predictions, targets], float)
log_loss_type_assert ==
  /\ pc = "ll_85"
  /\ IF TypeAssertOk(<<predictions, targets>>)
     THEN /\ pc' = "ll_86"
          /\ UNCHANGED <<targets, stack, likelihood_vals, filter_indices, ret,
                         result, raised, raisedBy, arith>>
     ELSE Raise("TypeAssertion")
  /\ UNCHANGED <<zeroPowZero, fn, predictions, targetsArg>>

\* likelihood(predictions, targets): enter likelihood
log_loss_call_likelihood ==
  /\ pc = "ll_86"
  /\ stack' = Append(stack, "likelihood")
  /\ pc' = Entry("likelihood")
  /\ UNCHANGED <<zeroPowZero, fn, predictions, targetsArg, targets, likelihood_vals,
                 filter_indices, ret, result, raised, raisedBy, arith>>

\* return -jnp.log(<the value likelihood returned>)
log_loss_return ==
  /\ pc = "ll_86r"
  /\ result' = Array("float", [i \in 1..Len(ret.vals) |-> NegLogElem(ret.vals[i])])
  /\ arith' = arith + 2
  /\ pc' = "done"
  /\ stack' = <<>>
  /\ UNCHANGED <<zeroPowZero, fn, predictions, targetsArg, targets, likelihood_vals,
                 filter_indices, ret, raised, raisedBy>>

Next ==
  \/ l2_loss_default
  \/ l2_loss_type_assert
  \/ l2_loss_return
  \/ likelihood_type_assert
  \/ likelihood_compute_vals
  \/ likelihood_filter
  \/ likelihood_return
  \/ log_loss_type_assert
  \/ log_loss_call_likelihood
  \/ log_loss_return

Spec == Init /\ [][Next]_vars

(***************************************************************************)
(* Vocabulary of the properties.                                           *)
(***************************************************************************)
Returned(f) == pc = "done" /\ fn = f
\* the positions of the returned array
Positions == 1..Len(result.vals)
\* the elements of the two arguments that meet at position i
P(i) == At(predictions, i)
T(i) == At(targetsArg, i)
\* the positions at which likelihood forces the result to 1
Override(p, t) ==
  \/ EqF(t, One) /\ EqF(p, One)
  \/ EqF(t, Zero) /\ EqF(p, Zero)
\* x <= y on floats: false when either is NaN
LeF(x, y) ==
  /\ ~IsNaN(x) /\ ~IsNaN(y)
  /\ \/ x = y
     \/ x = NInf
     \/ y = PInf
     \/ IsFin(x) /\ IsFin(y) /\ x.n <= y.n
\* x is in [0, 1]
InUnit(x) == LeF(Zero, x) /\ LeF(x, One)
\* the arguments as the type assertion sees them
CheckedTargets == IF targetsArg = None THEN ZerosLike(predictions) ELSE targetsArg
FloatInputs == predictions.dtype = "float" /\ CheckedTargets.dtype = "float"
\* the other platform's value of 0 ** 0
OtherZeroPowZero == IF zeroPowZero = One THEN NaN ELSE One

(***************************************************************************)
(* C1: likelihood returns exactly 1 at every position where targets == 1   *)
(* and predictions == 1, or targets == 0 and predictions == 0, whatever    *)
(* the direct formula evaluated to there (NaN included).                   *)
(***************************************************************************)
C1_OverrideIsOne ==
  Returned("likelihood") =>
    \A i \in Positions : Override(P(i), T(i)) => result.vals[i] = One

\* an override position at which the direct formula gave NaN
C1_Witness ==
  /\ Returned("likelihood")
  /\ \E i \in Positions :
       /\ Override(P(i), T(i))
       /\ IsNaN(likelihood_vals.vals[i])
       /\ result.vals[i] = One

(***************************************************************************)
(* C2: at every position that is not an override position, in particular   *)
(* wherever targets is strictly between 0 and 1, likelihood returns the    *)
(* direct formula predictions^targets * (1 - predictions)^(1 - targets).   *)
(***************************************************************************)
C2_DirectFormulaElsewhere ==
  Returned("likelihood") =>
    \A i \in Positions :
      /\ ~Override(P(i), T(i)) =>
           result.vals[i] = LikelihoodValsElem(zeroPowZero, P(i), T(i))
      /\ (IsFin(T(i)) /\ 0 < T(i).n /\ T(i).n < Scale) => ~Override(P(i), T(i))

\* targets strictly between 0 and 1 and a result that is not 1
C2_Witness ==
  /\ Returned("likelihood")
  /\ \E i \in Positions :
       /\ T(i) = Half
       /\ P(i) = Half
       /\ result.vals[i] = LikelihoodValsElem(zeroPowZero, Half, Half)
       /\ result.vals[i] # One

(***************************************************************************)
(* C3: log_loss is elementwise -log(likelihood(predictions, targets)), and *)
(* exactly 0 (not NaN) at every override position.                         *)
(***************************************************************************)
C3_LogLossIsNegLogLikelihood ==
  Returned("log_loss") =>
    \A i \in Positions :
      /\ result.vals[i] = Neg(Log(LikelihoodElem(zeroPowZero, P(i), T(i))))
      /\ Override(P(i), T(i)) => result.vals[i] = Zero

\* an override position, on the platform where 0 ** 0 is NaN, and a position
\* with a positive loss
C3_Witness ==
  /\ Returned("log_loss")
  /\ zeroPowZero = NaN
  /\ \E i \in Positions : Override(P(i), T(i)) /\ result.vals[i] = Zero
  /\ \E i \in Positions : IsFin(result.vals[i]) /\ result.vals[i].n > 0

(***************************************************************************)
(* C4: when an input array (targets after l2_loss has defaulted it) is not *)
(* floating-point, the call fails with a TypeAssertion error: the error is *)
(* raised before any arithmetic, nothing is returned, and in log_loss it   *)
(* is log_loss's own check that raises it, before likelihood is entered.   *)
(***************************************************************************)
C4_TypeAssertionBeforeArithmetic ==
  ~FloatInputs =>
    /\ pc \in {Entry(fn), "l2_49", "raised"}
    /\ arith = 0
    /\ result = None
    /\ stack = <<fn>>
    /\ pc = "raised" => raised = "TypeAssertion" /\ raisedBy = fn

\* log_loss on integer targets has failed
C4_Witness ==
  /\ fn = "log_loss"
  /\ predictions.dtype = "float"
  /\ targetsArg.dtype = "int"
  /\ pc = "raised"
  /\ raised = "TypeAssertion"

(***************************************************************************)
(* C5: l2_loss(p) called without targets equals l2_loss(p, zeros_like(p))  *)
(* and elementwise 0.5 * p^2, and every element of the result is           *)
(* non-negative.                                                           *)
(***************************************************************************)
\* the claim as stated: it fails at a NaN element of p, where the result is
\* NaN and NaN >= 0 is false
C5_RegularizerNonNegative ==
  (Returned("l2_loss") /\ targetsArg = None) =>
    /\ result = L2Loss(predictions, ZerosLike(predictions))
    /\ \A i \in Positions :
         /\ result.vals[i] = Mul(Half, Mul(P(i), P(i)))
         /\ LeF(Zero, result.vals[i])

\* C5 as amended: l2_loss(p) equals l2_loss(p, zeros_like(p)) and elementwise
\* 0.5 * p^2; every element of the result is non-negative, except that it is
\* NaN exactly where p is NaN.
C5_RegularizerNonNegativeOrNaN ==
  (Returned("l2_loss") /\ targetsArg = None) =>
    /\ result = L2Loss(predictions, ZerosLike(predictions))
    /\ \A i \in Positions :
         /\ result.vals[i] = Mul(Half, Mul(P(i), P(i)))
         /\ IsNaN(result.vals[i]) <=> IsNaN(P(i))
         /\ ~IsNaN(P(i)) => LeF(Zero, result.vals[i])

\* l2_loss without targets has returned for a p with a negative and a NaN
\* element
C5_Witness ==
  /\ Returned("l2_loss")
  /\ targetsArg = None
  /\ \E i \in Positions : IsFin(P(i)) /\ P(i).n < 0 /\ LeF(Zero, result.vals[i])
  /\ \E i \in Positions : IsNaN(P(i)) /\ IsNaN(result.vals[i])

(***************************************************************************)
(* C6: l2_loss(p, t) equals l2_loss(t, p) elementwise for broadcast-       *)
(* compatible float arrays (the two results hold the same values, NaN      *)
(* where either argument is NaN).                                          *)
(***************************************************************************)
C6_L2Symmetric ==
  (Returned("l2_loss") /\ targetsArg # None) =>
    result = L2Loss(targetsArg, predictions)

\* arguments of different shapes with p < t at one position and p > t at
\* another
C6_Witness ==
  /\ Returned("l2_loss")
  /\ targetsArg # None
  /\ Len(predictions.vals) # Len(targetsArg.vals)
  /\ \E i \in Positions : IsFin(P(i)) /\ IsFin(T(i)) /\ P(i).n < T(i).n
  /\ \E i \in Positions : IsFin(P(i)) /\ IsFin(T(i)) /\ P(i).n > T(i).n

(***************************************************************************)
(* C7: for each of the three functions and every targets whose shape is    *)
(* compatible with predictions, the returned array has the shape of        *)
(* predictions.  (Fails: a targets longer than predictions stretches the   *)
(* result to the shape of targets.)                                        *)
(***************************************************************************)
C7_ResultHasShapeOfPredictions ==
  pc = "done" => Len(result.vals) = Len(predictions.vals)

(***************************************************************************)
(* C8: wherever predictions and targets are both in [0, 1], the value      *)
(* likelihood returns is in [0, 1].                                        *)
(***************************************************************************)
C8_LikelihoodInUnitInterval ==
  Returned("likelihood") =>
    \A i \in Positions :
      (InUnit(P(i)) /\ InUnit(T(i))) => InUnit(result.vals[i])

\* in-range arguments with a likelihood strictly inside (0, 1), on the
\* platform where 0 ** 0 is NaN
C8_Witness ==
  /\ Returned("likelihood")
  /\ zeroPowZero = NaN
  /\ \E i \in Positions :
       /\ InUnit(P(i)) /\ InUnit(T(i))
       /\ IsFin(result.vals[i])
       /\ 0 < result.vals[i].n /\ result.vals[i].n < Scale
  /\ \E i \in Positions : Override(P(i), T(i))

(***************************************************************************)
(* C9: log_loss on float inputs never raises because of the value of       *)
(* likelihood: where likelihood is in (0, 1] the result is non-negative,   *)
(* where likelihood is 0 (predictions == 1 with targets == 0, or           *)
(* predictions == 0 with targets == 1) or negative the result is +Inf or   *)
(* NaN, returned as an ordinary value.                                     *)
(***************************************************************************)
C9_LogLossDomainBehaviour ==
  (fn = "log_loss" /\ FloatInputs /\ Compatible(predictions, targetsArg)) =>
    /\ pc # "raised"
    /\ raised = "none"
    /\ pc = "done" =>
         /\ Len(result.vals) = Len(ret.vals)
         /\ \A i \in Positions :
              LET lik == ret.vals[i]
                  out == result.vals[i]
              IN  /\ (IsFin(lik) /\ 0 < lik.n /\ lik.n <= Scale) => LeF(Zero, out)
                  /\ (IsFin(lik) /\ lik.n = 0) => out = PInf
                  /\ (~IsNaN(lik) /\ Sign(lik) < 0) => IsNaN(out)
                  /\ (EqF(P(i), One) /\ EqF(T(i), Zero)) => lik = Zero
                  /\ (EqF(P(i), Zero) /\ EqF(T(i), One)) => lik = Zero

\* one call returns a non-negative finite loss, +Inf for a zero likelihood
\* and NaN for a negative likelihood
C9_Witness ==
  /\ Returned("log_loss")
  /\ \E i \in Positions : ret.vals[i] = Zero /\ result.vals[i] = PInf
  /\ \E i \in Positions :
       IsFin(ret.vals[i]) /\ ret.vals[i].n < 0 /\ IsNaN(result.vals[i])

(***************************************************************************)
(* C10: for predictions and targets in [0, 1] a 0^0 sub-expression occurs  *)
(* only at the override positions; hence likelihood returns the same       *)
(* non-NaN value whether the platform evaluates 0^0 as 1 or as NaN, and    *)
(* where 0^0 is 1 the override changes no element of the direct formula.   *)
(***************************************************************************)
C10_OverrideOnlyHidesZeroPowZero ==
  Returned("likelihood") =>
    \A i \in Positions :
      (InUnit(P(i)) /\ InUnit(T(i))) =>
        /\ ( \/ P(i) = Zero /\ T(i) = Zero
             \/ Sub(One, P(i)) = Zero /\ Sub(One, T(i)) = Zero ) => filter_indices[i]
        /\ ~IsNaN(result.vals[i])
        /\ result.vals[i] = LikelihoodElem(OtherZeroPowZero, P(i), T(i))
        /\ zeroPowZero = One => result.vals[i] = likelihood_vals.vals[i]

\* where 0^0 is 1: an override position whose direct value was already 1,
\* beside an in-range position that is not overridden
C10_Witness ==
  /\ Returned("likelihood")
  /\ zeroPowZero = One
  /\ \E i \in Positions :
       /\ P(i) = Zero /\ T(i) = Zero
       /\ filter_indices[i]
       /\ likelihood_vals.vals[i] = One
  /\ \E i \in Positions :
       InUnit(P(i)) /\ InUnit(T(i)) /\ ~filter_indices[i]

====
